---- MODULE Spec2Model ----
(***************************************************************************)
(* update_env_from_deployment.py: one-shot synchronisation of .env from    *)
(* deployments/localhost-latest.json.                                      *)
(*                                                                         *)
(* Text is a sequence of tokens.  The tokens " ", "=", "#" and "\n" are    *)
(* the characters the parser looks at; every other token stands for a run  *)
(* of ordinary characters (a key name, an address, a banner caption).      *)
(* Deployment values are single-line address strings.  Writes to standard  *)
(* output are assumed not to fault.                                        *)
(***************************************************************************)
EXTENDS Integers, Sequences, FiniteSets, TLC

VARIABLES deployFile, envFile, pc, handles, deployment, contracts, config,
          env_vars, lineBuf, wi, result, exitCode, fault, clock,
          envBefore, prevResult, touched

vars == <<deployFile, envFile, pc, handles, deployment, contracts, config,
          env_vars, lineBuf, wi, result, exitCode, fault, clock,
          envBefore, prevResult, touched>>

-----------------------------------------------------------------------------
(* Bounds *)

MaxLines == 2
MaxRuns == 2
MaxTextLen == 6

-----------------------------------------------------------------------------
(* Strings *)

NL == "\n"

Whitespace == {" ", NL}

SetMin(S) == CHOOSE x \in S : \A y \in S : x <= y

SetMax(S) == CHOOSE x \in S : \A y \in S : y <= x

\* str.strip()
Strip(s) ==
  LET idx == {i \in 1..Len(s) : s[i] \notin Whitespace}
  IN IF idx = {} THEN <<>> ELSE SubSeq(s, SetMin(idx), SetMax(idx))

\* str.startswith('#')
StartsWithHash(s) == Len(s) > 0 /\ s[1] = "#"

\* '=' in line
HasEq(s) == \E i \in 1..Len(s) : s[i] = "="

\* line.split('=') keeping the last piece as the value
SplitEqLast(s) ==
  LET i == SetMax({j \in 1..Len(s) : s[j] = "="})
  IN <<SubSeq(s, 1, i - 1), SubSeq(s, i + 1, Len(s))>>

\* line.split('=', 1), for a line that contains '='
SplitEq(s) ==
  LET i == SetMin({j \in 1..Len(s) : s[j] = "="})
  IN <<SubSeq(s, 1, i - 1), SubSeq(s, i + 1, Len(s))>>

\* iteration over a text file: each line keeps its terminating newline
RECURSIVE LinesFrom(_, _, _)
LinesFrom(text, start, i) ==
  IF i > Len(text)
  THEN IF start > Len(text) THEN <<>> ELSE <<SubSeq(text, start, Len(text))>>
  ELSE IF text[i] = NL
       THEN <<SubSeq(text, start, i)>> \o LinesFrom(text, i + 1, i + 1)
       ELSE LinesFrom(text, start, i + 1)

FileLines(text) == LinesFrom(text, 1, 1)

\* dict.get(k, default)
Get(d, k, default) == IF k \in DOMAIN d THEN d[k] ELSE default

\* d[k] = v
Put(d, k, v) == [x \in (DOMAIN d) \cup {k} |-> IF x = k THEN v ELSE d[x]]

EmptyDict == [x \in {} |-> <<>>]

-----------------------------------------------------------------------------
(* Keys and defaults *)

RPC_URL == <<"RPC_URL">>
CHAIN_ID == <<"CHAIN_ID">>
PLATFORM_FEE_RATE == <<"PLATFORM_FEE_RATE">>
RIDE_ORDER_ADDRESS == <<"RIDE_ORDER_ADDRESS">>
PAYMENT_ESCROW_ADDRESS == <<"PAYMENT_ESCROW_ADDRESS">>
USER_REGISTRY_ADDRESS == <<"USER_REGISTRY_ADDRESS">>
RATING_SYSTEM_ADDRESS == <<"RATING_SYSTEM_ADDRESS">>
DISPUTE_RESOLUTION_ADDRESS == <<"DISPUTE_RESOLUTION_ADDRESS">>
PLATFORM_WALLET == <<"PLATFORM_WALLET">>

DefaultRpcUrl == <<"http://127.0.0.1:8545">>
DefaultChainId == <<"1337">>
DefaultFeeRate == <<"5">>

-----------------------------------------------------------------------------
(* Reading the existing .env *)

\* body of the loop over the lines of .env
ParseLine(ev, rawline) ==
  LET line == Strip(rawline)
  IN IF line # <<>> /\ ~StartsWithHash(line) /\ HasEq(line)
     THEN LET kv == SplitEq(line)
          IN Put(ev, Strip(kv[1]), Strip(kv[2]))
     ELSE ev

-----------------------------------------------------------------------------
(* Merging *)

\* env_vars.setdefault(...): a value already in the map is kept
UpdateKeepingPrior(ev, c, cfg) ==
  LET new == [k \in {RIDE_ORDER_ADDRESS, PAYMENT_ESCROW_ADDRESS,
                      USER_REGISTRY_ADDRESS, RATING_SYSTEM_ADDRESS,
                      DISPUTE_RESOLUTION_ADDRESS, PLATFORM_WALLET} |->
                CASE k = RIDE_ORDER_ADDRESS -> Get(c, "rideOrder", <<>>)
                  [] k = PAYMENT_ESCROW_ADDRESS -> Get(c, "paymentEscrow", <<>>)
                  [] k = USER_REGISTRY_ADDRESS -> Get(c, "userRegistry", <<>>)
                  [] k = RATING_SYSTEM_ADDRESS -> Get(c, "ratingSystem", <<>>)
                  [] k = DISPUTE_RESOLUTION_ADDRESS -> Get(c, "disputeResolution", <<>>)
                  [] k = PLATFORM_WALLET -> Get(cfg, "platformWallet", <<>>)]
  IN [k \in (DOMAIN ev) \cup (DOMAIN new) |->
        IF k \in DOMAIN ev THEN ev[k] ELSE new[k]]

\* env_vars[...] = contracts.get(..., '') and config.get('platformWallet', '')
UpdateFromDeployment(ev, c, cfg) ==
  LET e1 == Put(ev, RIDE_ORDER_ADDRESS, Get(c, "rideOrder", <<>>))
      e2 == Put(e1, PAYMENT_ESCROW_ADDRESS, Get(c, "paymentEscrow", <<>>))
      e3 == Put(e2, USER_REGISTRY_ADDRESS, Get(c, "userRegistry", <<>>))
      e4 == Put(e3, RATING_SYSTEM_ADDRESS, Get(c, "ratingSystem", <<>>))
      e5 == Put(e4, DISPUTE_RESOLUTION_ADDRESS, Get(c, "disputeResolution", <<>>))
  IN Put(e5, PLATFORM_WALLET, Get(cfg, "platformWallet", <<>>))

\* env_vars[K] = default, whatever the map holds
SetDefaultAlways(ev, k, d) == Put(ev, k, d)

\* if not env_vars.get(K): env_vars[K] = default
SetDefaultIfEmpty(ev, k, d) ==
  IF k \notin DOMAIN ev \/ ev[k] = <<>> THEN Put(ev, k, d) ELSE ev

\* if K not in env_vars: env_vars[K] = default
SetDefault(ev, k, d) == IF k \notin DOMAIN ev THEN Put(ev, k, d) ELSE ev

ApplyDefaults(ev) ==
  SetDefault(SetDefault(SetDefault(ev, RPC_URL, DefaultRpcUrl),
                        CHAIN_ID, DefaultChainId),
             PLATFORM_FEE_RATE, DefaultFeeRate)

-----------------------------------------------------------------------------
(* Writing *)

\* one f.write too few
NumWritesShort == 15 - 1

\* number of f.write calls in the with-block
NumWrites == 15

\* f"KEY={value}" without the line terminator
KeyLineNoNewline(k, v, end) == k \o <<"=">> \o v

\* f"KEY={value}\n", f"KEY={value}\n\n"
KeyLine(k, v, end) == k \o <<"=">> \o v \o end

\* datetime.now().isoformat()
IsoFormat(t) == <<ToString(t)>>

\* the i-th f.write(...) of the with-block
WriteChunk(i, ev, now) ==
  CASE i = 1 -> <<"#", " ", "ENV_CONFIG_FILE", NL>>
    [] i = 2 -> <<"#", " ", "UPDATED_AT:", " ">> \o IsoFormat(now) \o <<NL>>
    [] i = 3 -> <<"#", " ", "ETH", " ", "Mode", " ", "-", " ", "NATIVE_ETH", NL, NL>>
    [] i = 4 -> <<"#", " ", "=", "=", " ", "CHAIN_CONFIG", " ", "=", "=", NL>>
    [] i = 5 -> KeyLine(RPC_URL, Get(ev, RPC_URL, DefaultRpcUrl), <<NL>>)
    [] i = 6 -> KeyLine(CHAIN_ID, Get(ev, CHAIN_ID, DefaultChainId), <<NL, NL>>)
    [] i = 7 -> <<"#", " ", "=", "=", " ", "CONTRACT_ADDRESSES", " ", "(ETH)", " ", "=", "=", NL>>
    [] i = 8 -> KeyLine(PAYMENT_ESCROW_ADDRESS, ev[PAYMENT_ESCROW_ADDRESS], <<NL>>)
    [] i = 9 -> KeyLine(RIDE_ORDER_ADDRESS, ev[RIDE_ORDER_ADDRESS], <<NL>>)
    [] i = 10 -> KeyLine(USER_REGISTRY_ADDRESS, ev[USER_REGISTRY_ADDRESS], <<NL>>)
    [] i = 11 -> KeyLine(RATING_SYSTEM_ADDRESS, ev[RATING_SYSTEM_ADDRESS], <<NL>>)
    [] i = 12 -> KeyLine(DISPUTE_RESOLUTION_ADDRESS, ev[DISPUTE_RESOLUTION_ADDRESS], <<NL, NL>>)
    [] i = 13 -> <<"#", " ", "=", "=", " ", "PLATFORM_CONFIG", " ", "=", "=", NL>>
    [] i = 14 -> KeyLine(PLATFORM_WALLET, ev[PLATFORM_WALLET], <<NL>>)
    [] i = 15 -> KeyLine(PLATFORM_FEE_RATE, Get(ev, PLATFORM_FEE_RATE, DefaultFeeRate), <<NL>>)

\* exit(1 if success else 0)
ExitCodeSwapped(success) == IF success = "True" THEN 1 ELSE 0

\* the except branch returns True
NotFoundResultTrue == "True"

\* return False, in the except FileNotFoundError branch
NotFoundResult == "False"

\* exit(0 if success else 1)
ExitCodeOf(success) == IF success = "True" THEN 0 ELSE 1

\* exit status of the interpreter after an uncaught exception
CrashExitCode == 1

-----------------------------------------------------------------------------
(* Inputs *)

FullContracts ==
  [k \in {"rideOrder", "paymentEscrow", "userRegistry", "ratingSystem",
          "disputeResolution"} |->
     CASE k = "rideOrder" -> <<"0xR1">>
       [] k = "paymentEscrow" -> <<"0xP2">>
       [] k = "userRegistry" -> <<"0xU3">>
       [] k = "ratingSystem" -> <<"0xS4">>
       [] k = "disputeResolution" -> <<"0xD5">>]

Without(f, k) == [x \in (DOMAIN f) \ {k} |-> f[x]]

Wallet == [k \in {"platformWallet"} |-> <<"0xW6">>]

NoWallet == [k \in {"feeRate"} |-> <<"3">>]

Json(c, cfg) == [k \in {"contracts", "configuration"} |->
                   IF k = "contracts" THEN c ELSE cfg]

JsonNoConfig(c) == [k \in {"contracts"} |-> c]

JsonNoContracts(cfg) == [k \in {"configuration"} |-> cfg]

DeploymentFiles ==
  { [state |-> "missing", json |-> EmptyDict],
    [state |-> "malformed", json |-> EmptyDict],
    [state |-> "ok", json |-> Json(FullContracts, Wallet)],
    [state |-> "ok", json |-> JsonNoConfig(Without(FullContracts, "ratingSystem"))],
    [state |-> "ok", json |-> Json(Without(FullContracts, "rideOrder"), NoWallet)],
    [state |-> "ok", json |-> Json(EmptyDict, Wallet)],
    [state |-> "ok", json |-> JsonNoContracts(Wallet)] }

PriorLines ==
  { <<" ", "CHAIN_ID", " ", "=", " ", "42", " ">>,
    <<"PLATFORM_FEE_RATE", "=">>,
    <<"RPC_URL", "=", "a", "=", "b">>,
    <<"#", "CHAIN_ID", "=", "7">>,
    <<"FOO", "=", "bar">>,
    <<"RATING_SYSTEM_ADDRESS", "=", "0xOLD">>,
    <<"PLATFORM_WALLET", "=", "0xOLDW">> }

RECURSIVE JoinLines(_)
JoinLines(ls) ==
  IF ls = <<>> THEN <<>> ELSE Head(ls) \o <<NL>> \o JoinLines(Tail(ls))

SeqsUpTo(S, n) == UNION {[1..m -> S] : m \in 0..n}

Absent == [exists |-> FALSE, text |-> <<>>]

File(text) == [exists |-> TRUE, text |-> text]

PriorEnvFiles ==
  {Absent} \cup {File(JoinLines(ls)) : ls \in SeqsUpTo(PriorLines, MaxLines)}

-----------------------------------------------------------------------------
(* The run *)

Locals0 ==
  /\ pc = "start"
  /\ handles = {}
  /\ deployment = EmptyDict
  /\ contracts = EmptyDict
  /\ config = EmptyDict
  /\ env_vars = EmptyDict
  /\ lineBuf = <<>>
  /\ wi = 0
  /\ result = "none"
  /\ exitCode = -1
  /\ fault = "none"
  /\ touched = FALSE

Init ==
  /\ deployFile \in DeploymentFiles
  /\ envFile \in PriorEnvFiles
  /\ envBefore = envFile
  /\ prevResult = "none"
  /\ clock = 1
  /\ Locals0

Crash(f) ==
  /\ pc' = "crashed"
  /\ fault' = f
  /\ exitCode' = CrashExitCode
  /\ handles' = {}

\* open(deployment_file) raises FileNotFoundError: print, return False
DeploymentNotFound ==
  /\ pc = "start"
  /\ deployFile.state = "missing"
  /\ result' = NotFoundResult
  /\ pc' = "returned"
  /\ UNCHANGED <<deployFile, envFile, handles, deployment, contracts, config,
                 env_vars, lineBuf, wi, exitCode, fault, clock, envBefore,
                 prevResult, touched>>

OpenDeployment ==
  /\ pc = "start"
  /\ deployFile.state # "missing"
  /\ handles' = {"deployment"}
  /\ pc' = "json_load"
  /\ UNCHANGED <<deployFile, envFile, deployment, contracts, config, env_vars,
                 lineBuf, wi, result, exitCode, fault, clock, envBefore,
                 prevResult, touched>>

\* json.load(f), then the with-block closes f
JsonLoad ==
  /\ pc = "json_load"
  /\ deployFile.state = "ok"
  /\ deployment' = deployFile.json
  /\ handles' = {}
  /\ pc' = "extract"
  /\ UNCHANGED <<deployFile, envFile, contracts, config, env_vars, lineBuf, wi,
                 result, exitCode, fault, clock, envBefore, prevResult, touched>>

\* json.load(f) raises JSONDecodeError, which nothing catches
JsonLoadFault ==
  /\ pc = "json_load"
  /\ deployFile.state = "malformed"
  /\ Crash("json")
  /\ UNCHANGED <<deployFile, envFile, deployment, contracts, config, env_vars,
                 lineBuf, wi, result, clock, envBefore, prevResult, touched>>

\* contracts = deployment['contracts']; config = deployment.get('configuration', {})
Extract ==
  /\ pc = "extract"
  /\ "contracts" \in DOMAIN deployment
  /\ contracts' = deployment["contracts"]
  /\ config' = Get(deployment, "configuration", EmptyDict)
  /\ env_vars' = EmptyDict
  /\ pc' = "check_env"
  /\ UNCHANGED <<deployFile, envFile, handles, deployment, lineBuf, wi, result,
                 exitCode, fault, clock, envBefore, prevResult, touched>>

\* deployment['contracts'] raises KeyError
ExtractFault ==
  /\ pc = "extract"
  /\ "contracts" \notin DOMAIN deployment
  /\ Crash("contracts")
  /\ UNCHANGED <<deployFile, envFile, deployment, contracts, config, env_vars,
                 lineBuf, wi, result, clock, envBefore, prevResult, touched>>

\* os.path.exists(env_file) is false
SkipEnvRead ==
  /\ pc = "check_env"
  /\ ~envFile.exists
  /\ pc' = "merge"
  /\ UNCHANGED <<deployFile, envFile, handles, deployment, contracts, config,
                 env_vars, lineBuf, wi, result, exitCode, fault, clock,
                 envBefore, prevResult, touched>>

\* content of .env right after open(env_file, 'w+')
OpenedForReadTruncating(f) == File(<<>>)

\* content of .env right after open(env_file, 'r')
OpenedForRead(f) == f

\* open(env_file, 'r')
OpenEnvRead ==
  /\ pc = "check_env"
  /\ envFile.exists
  /\ handles' = {"env_r"}
  /\ envFile' = OpenedForRead(envFile)
  /\ lineBuf' = FileLines(envFile'.text)
  /\ pc' = "read_loop"
  /\ UNCHANGED <<deployFile, deployment, contracts, config, env_vars,
                 wi, result, exitCode, fault, clock, envBefore, prevResult,
                 touched>>

\* one iteration of: for line in f
ReadLine ==
  /\ pc = "read_loop"
  /\ lineBuf # <<>>
  /\ env_vars' = ParseLine(env_vars, Head(lineBuf))
  /\ lineBuf' = Tail(lineBuf)
  /\ UNCHANGED <<deployFile, envFile, pc, handles, deployment, contracts,
                 config, wi, result, exitCode, fault, clock, envBefore,
                 prevResult, touched>>

\* end of the loop, the with-block closes f
CloseEnvRead ==
  /\ pc = "read_loop"
  /\ lineBuf = <<>>
  /\ handles' = {}
  /\ pc' = "merge"
  /\ UNCHANGED <<deployFile, envFile, deployment, contracts, config, env_vars,
                 lineBuf, wi, result, exitCode, fault, clock, envBefore,
                 prevResult, touched>>

\* reading .env raises (OSError, UnicodeDecodeError)
EnvReadFault ==
  /\ pc = "read_loop"
  /\ Crash("read")
  /\ UNCHANGED <<deployFile, envFile, deployment, contracts, config, env_vars,
                 lineBuf, wi, result, clock, envBefore, prevResult, touched>>

Merge ==
  /\ pc = "merge"
  /\ env_vars' = UpdateFromDeployment(env_vars, contracts, config)
  /\ pc' = "defaults"
  /\ UNCHANGED <<deployFile, envFile, handles, deployment, contracts, config,
                 lineBuf, wi, result, exitCode, fault, clock, envBefore,
                 prevResult, touched>>

Defaults ==
  /\ pc = "defaults"
  /\ env_vars' = ApplyDefaults(env_vars)
  /\ pc' = "open_write"
  /\ UNCHANGED <<deployFile, envFile, handles, deployment, contracts, config,
                 lineBuf, wi, result, exitCode, fault, clock, envBefore,
                 prevResult, touched>>

\* content of .env right after open(env_file, 'a')
OpenedForAppend(f) == File(f.text)

\* content of .env right after open(env_file, 'w')
OpenedForWrite(f) == File(<<>>)

OpenEnvWrite ==
  /\ pc = "open_write"
  /\ envFile' = OpenedForWrite(envFile)
  /\ handles' = {"env_w"}
  /\ touched' = TRUE
  /\ wi' = 1
  /\ pc' = "write"
  /\ UNCHANGED <<deployFile, deployment, contracts, config, env_vars, lineBuf,
                 result, exitCode, fault, clock, envBefore, prevResult>>

\* open(env_file, 'w') raises OSError
OpenEnvWriteFault ==
  /\ pc = "open_write"
  /\ Crash("open_write")
  /\ UNCHANGED <<deployFile, envFile, deployment, contracts, config, env_vars,
                 lineBuf, wi, result, clock, envBefore, prevResult, touched>>

WriteStep ==
  /\ pc = "write"
  /\ wi <= NumWrites
  /\ envFile' = File(envFile.text \o WriteChunk(wi, env_vars, clock))
  /\ wi' = wi + 1
  /\ UNCHANGED <<deployFile, pc, handles, deployment, contracts, config,
                 env_vars, lineBuf, result, exitCode, fault, clock, envBefore,
                 prevResult, touched>>

\* an f.write raises OSError; what was written so far stays in the file
WriteFault ==
  /\ pc = "write"
  /\ wi <= NumWrites
  /\ Crash("write")
  /\ UNCHANGED <<deployFile, envFile, deployment, contracts, config, env_vars,
                 lineBuf, wi, result, clock, envBefore, prevResult, touched>>

CloseEnvWrite ==
  /\ pc = "write"
  /\ wi > NumWrites
  /\ handles' = {}
  /\ pc' = "print"
  /\ UNCHANGED <<deployFile, envFile, deployment, contracts, config, env_vars,
                 lineBuf, wi, result, exitCode, fault, clock, envBefore,
                 prevResult, touched>>

\* the summary is printed; return True
ReturnTrue ==
  /\ pc = "print"
  /\ result' = "True"
  /\ pc' = "returned"
  /\ UNCHANGED <<deployFile, envFile, handles, deployment, contracts, config,
                 env_vars, lineBuf, wi, exitCode, fault, clock, envBefore,
                 prevResult, touched>>

\* success = update_env_file(); exit(0 if success else 1)
Exit ==
  /\ pc = "returned"
  /\ exitCode' = ExitCodeOf(result)
  /\ pc' = "exited"
  /\ UNCHANGED <<deployFile, envFile, handles, deployment, contracts, config,
                 env_vars, lineBuf, wi, result, fault, clock, envBefore,
                 prevResult, touched>>

\* the script is invoked again after the process ended, the deployment file unchanged
Rerun ==
  /\ pc \in {"exited", "crashed"}
  /\ clock < MaxRuns
  /\ clock' = clock + 1
  /\ envBefore' = envFile
  /\ prevResult' = result
  /\ pc' = "start"
  /\ handles' = {}
  /\ deployment' = EmptyDict
  /\ contracts' = EmptyDict
  /\ config' = EmptyDict
  /\ env_vars' = EmptyDict
  /\ lineBuf' = <<>>
  /\ wi' = 0
  /\ result' = "none"
  /\ exitCode' = -1
  /\ fault' = "none"
  /\ touched' = FALSE
  /\ UNCHANGED <<deployFile, envFile>>

Next ==
  \/ DeploymentNotFound
  \/ OpenDeployment
  \/ JsonLoad
  \/ JsonLoadFault
  \/ Extract
  \/ ExtractFault
  \/ SkipEnvRead
  \/ OpenEnvRead
  \/ ReadLine
  \/ CloseEnvRead
  \/ EnvReadFault
  \/ Merge
  \/ Defaults
  \/ OpenEnvWrite
  \/ OpenEnvWriteFault
  \/ WriteStep
  \/ WriteFault
  \/ CloseEnvWrite
  \/ ReturnTrue
  \/ Exit
  \/ Rerun

Spec == Init /\ [][Next]_vars

TypeOK ==
  /\ pc \in {"start", "json_load", "extract", "check_env", "read_loop", "merge",
             "defaults", "open_write", "write", "print", "returned", "exited",
             "crashed"}
  /\ result \in {"none", "True", "False"}
  /\ wi \in 0..(NumWrites + 1)

-----------------------------------------------------------------------------
(* The parser alone, on every short text *)

ParseAlphabet == {"K", "=", " ", "#", NL}

ParseTexts == SeqsUpTo(ParseAlphabet, MaxTextLen)

InitParse ==
  /\ deployFile = [state |-> "ok", json |-> Json(FullContracts, Wallet)]
  /\ envFile \in {File(t) : t \in ParseTexts}
  /\ envBefore = envFile
  /\ prevResult = "none"
  /\ clock = 1
  /\ pc = "check_env"
  /\ handles = {}
  /\ deployment = deployFile.json
  /\ contracts = deployment["contracts"]
  /\ config = deployment["configuration"]
  /\ env_vars = EmptyDict
  /\ lineBuf = <<>>
  /\ wi = 0
  /\ result = "none"
  /\ exitCode = -1
  /\ fault = "none"
  /\ touched = FALSE

NextParse == OpenEnvRead \/ ReadLine \/ CloseEnvRead

SpecParse == InitParse /\ [][NextParse]_vars

-----------------------------------------------------------------------------
(* What a text says about a key, stated without the parser *)

RECURSIVE LTrim(_)
LTrim(s) == IF s # <<>> /\ Head(s) \in Whitespace THEN LTrim(Tail(s)) ELSE s

RECURSIVE RTrim(_)
RTrim(s) ==
  IF s # <<>> /\ s[Len(s)] \in Whitespace THEN RTrim(SubSeq(s, 1, Len(s) - 1)) ELSE s

Trim(s) == RTrim(LTrim(s))

RECURSIVE BeforeFirstEq(_)
BeforeFirstEq(s) ==
  IF s = <<>> \/ Head(s) = "=" THEN <<>> ELSE <<Head(s)>> \o BeforeFirstEq(Tail(s))

RECURSIVE AfterFirstEq(_)
AfterFirstEq(s) ==
  IF s = <<>> THEN <<>>
  ELSE IF Head(s) = "=" THEN Tail(s) ELSE AfterFirstEq(Tail(s))

\* the line is a key line: trimmed, it is non-empty, is no comment, has an '='
IsKeyLine(l) ==
  LET t == Trim(l)
  IN /\ t # <<>>
     /\ Head(t) # "#"
     /\ "=" \in {l[i] : i \in 1..Len(l)}

KeyOfLine(l) == Trim(BeforeFirstEq(Trim(l)))

ValueOfLine(l) == Trim(AfterFirstEq(Trim(l)))

KeyLinesFor(text, k) ==
  LET L == FileLines(text)
  IN {i \in 1..Len(L) : IsKeyLine(L[i]) /\ KeyOfLine(L[i]) = k}

KeysOf(text) ==
  LET L == FileLines(text)
  IN {KeyOfLine(L[i]) : i \in {j \in 1..Len(L) : IsKeyLine(L[j])}}

HasKey(text, k) == KeyLinesFor(text, k) # {}

LastValue(text, k) ==
  LET L == FileLines(text)
      at == KeyLinesFor(text, k)
  IN ValueOfLine(L[CHOOSE i \in at : \A j \in at : j <= i])

-----------------------------------------------------------------------------
(* The written file, read off its text *)

Succeeded == pc = "exited" /\ result = "True"

NineKeys ==
  {RPC_URL, CHAIN_ID, PAYMENT_ESCROW_ADDRESS, RIDE_ORDER_ADDRESS,
   USER_REGISTRY_ADDRESS, RATING_SYSTEM_ADDRESS, DISPUTE_RESOLUTION_ADDRESS,
   PLATFORM_WALLET, PLATFORM_FEE_RATE}

\* the line begins with k followed by '='
IsLineOf(l, k) == Len(l) > Len(k) /\ SubSeq(l, 1, Len(k) + 1) = k \o <<"=">>

\* what stands between that '=' and the end of the line
RawValue(l, k) ==
  SubSeq(l, Len(k) + 2, IF l[Len(l)] = NL THEN Len(l) - 1 ELSE Len(l))

\* among the lines L exactly one is a line of k, and it gives k the value v
WritesExactly(L, k, v) ==
  LET at == {i \in 1..Len(L) : IsLineOf(L[i], k)}
  IN /\ Cardinality(at) = 1
     /\ \A i \in at : RawValue(L[i], k) = v

Written == FileLines(envFile.text)

\* the value of a field of the deployment file, '' when it is not there
FieldOf(section, field) ==
  IF section \in DOMAIN deployFile.json /\ field \in DOMAIN deployFile.json[section]
  THEN deployFile.json[section][field]
  ELSE <<>>

PriorHas(k) == envBefore.exists /\ HasKey(envBefore.text, k)

\* the lines of a text other than the second one, which carries the timestamp
ExceptTimestampLine(text) ==
  LET L == FileLines(text)
  IN [i \in (1..Len(L)) \ {2} |-> L[i]]

IsComment(l) == Len(l) > 0 /\ l[1] = "#"

IsBlank(l) == l = <<NL>>

\* header, blank, banner and two keys, blank, banner and five keys, blank,
\* banner and two keys
HasLayout(text, a1, a2, a3, a4, a5) ==
  LET L == FileLines(text)
  IN /\ Len(L) = 18
     /\ \A i \in {1, 2, 3, 5, 9, 16} : IsComment(L[i])
     /\ \A i \in {4, 8, 15} : IsBlank(L[i])
     /\ IsLineOf(L[6], RPC_URL)
     /\ IsLineOf(L[7], CHAIN_ID)
     /\ IsLineOf(L[10], a1)
     /\ IsLineOf(L[11], a2)
     /\ IsLineOf(L[12], a3)
     /\ IsLineOf(L[13], a4)
     /\ IsLineOf(L[14], a5)
     /\ IsLineOf(L[17], PLATFORM_WALLET)
     /\ IsLineOf(L[18], PLATFORM_FEE_RATE)

\* every one of the nine keys has its line in the text
Complete(text) ==
  LET L == FileLines(text)
  IN \A k \in NineKeys : \E i \in 1..Len(L) : IsLineOf(L[i], k)

-----------------------------------------------------------------------------
(* Claims *)

\* C1: when the deployment file does not exist the run returns false, the
\* process exits with code 1, and .env stays as it was before the run
\* (absent stays absent, present keeps its content).
C1_MissingDeploymentLeavesEnv ==
  deployFile.state = "missing" =>
    /\ envFile = envBefore
    /\ pc # "crashed"
    /\ pc \in {"returned", "exited"} => result = "False"
    /\ pc = "exited" => exitCode = 1

C1_Witness ==
  /\ deployFile.state = "missing"
  /\ pc = "exited"
  /\ envBefore.exists
  /\ envBefore.text # <<>>

\* C2: after a successful run each of the five address keys and
\* PLATFORM_WALLET is written once, with the value of its deployment field, or
\* with the empty string when the field or the configuration object is
\* missing, whatever the prior .env held for it.
C2_AddressesFromDeployment ==
  LET L == Written IN
  Succeeded =>
    /\ WritesExactly(L, RIDE_ORDER_ADDRESS, FieldOf("contracts", "rideOrder"))
    /\ WritesExactly(L, PAYMENT_ESCROW_ADDRESS, FieldOf("contracts", "paymentEscrow"))
    /\ WritesExactly(L, USER_REGISTRY_ADDRESS, FieldOf("contracts", "userRegistry"))
    /\ WritesExactly(L, RATING_SYSTEM_ADDRESS, FieldOf("contracts", "ratingSystem"))
    /\ WritesExactly(L, DISPUTE_RESOLUTION_ADDRESS, FieldOf("contracts", "disputeResolution"))
    /\ WritesExactly(L, PLATFORM_WALLET, FieldOf("configuration", "platformWallet"))

\* the prior .env had values for a missing contract field and for the wallet
\* of a missing configuration
C2_Witness ==
  LET L == Written IN
  /\ Succeeded
  /\ "configuration" \notin DOMAIN deployFile.json
  /\ "ratingSystem" \notin DOMAIN deployFile.json["contracts"]
  /\ PriorHas(RATING_SYSTEM_ADDRESS)
  /\ PriorHas(PLATFORM_WALLET)
  /\ WritesExactly(L, RATING_SYSTEM_ADDRESS, <<>>)

\* C3: after a successful run RPC_URL, CHAIN_ID and PLATFORM_FEE_RATE carry
\* the value the prior .env gave them, and the defaults http://127.0.0.1:8545,
\* 1337 and 5 when there was no prior .env or the key was not in it.
C3_PriorValueOrDefault ==
  LET L == Written IN
  Succeeded =>
    /\ WritesExactly(L, RPC_URL,
         IF PriorHas(RPC_URL) THEN LastValue(envBefore.text, RPC_URL)
         ELSE <<"http://127.0.0.1:8545">>)
    /\ WritesExactly(L, CHAIN_ID,
         IF PriorHas(CHAIN_ID) THEN LastValue(envBefore.text, CHAIN_ID)
         ELSE <<"1337">>)
    /\ WritesExactly(L, PLATFORM_FEE_RATE,
         IF PriorHas(PLATFORM_FEE_RATE) THEN LastValue(envBefore.text, PLATFORM_FEE_RATE)
         ELSE <<"5">>)

\* a prior CHAIN_ID is kept while RPC_URL falls back to its default, with a
\* deployment whose configuration carries other fields
C3_Witness ==
  LET L == Written IN
  /\ Succeeded
  /\ PriorHas(CHAIN_ID)
  /\ ~PriorHas(RPC_URL)
  /\ "configuration" \in DOMAIN deployFile.json
  /\ WritesExactly(L, CHAIN_ID, <<"42">>)

\* C4: a successful run that follows a successful run, the deployment file
\* unchanged, leaves .env with the same lines as before it, the timestamp line
\* apart.
C4_Idempotent ==
  (Succeeded /\ prevResult = "True") =>
    ExceptTimestampLine(envFile.text) = ExceptTimestampLine(envBefore.text)

\* the second run rewrote a file whose RPC_URL value contains '='
C4_Witness ==
  LET L == Written IN
  /\ Succeeded
  /\ prevResult = "True"
  /\ envFile # envBefore
  /\ WritesExactly(L, RPC_URL, <<"a", "=", "b">>)

\* C5: after a successful run the key lines of .env are those of the nine
\* recognised keys, one line each; no other key of the prior .env is left.
C5_OnlyNineKeys ==
  Succeeded =>
    /\ KeysOf(envFile.text) = NineKeys
    /\ \A k \in NineKeys : Cardinality(KeyLinesFor(envFile.text, k)) = 1

C5_Witness ==
  /\ Succeeded
  /\ PriorHas(<<"FOO">>)
  /\ ~HasKey(envFile.text, <<"FOO">>)

\* C6 as stated: the address section lists RIDE_ORDER_ADDRESS first, then
\* PAYMENT_ESCROW_ADDRESS, USER_REGISTRY_ADDRESS, RATING_SYSTEM_ADDRESS,
\* DISPUTE_RESOLUTION_ADDRESS.
C6_AsStated ==
  Succeeded =>
    HasLayout(envFile.text, RIDE_ORDER_ADDRESS, PAYMENT_ESCROW_ADDRESS,
              USER_REGISTRY_ADDRESS, RATING_SYSTEM_ADDRESS,
              DISPUTE_RESOLUTION_ADDRESS)

\* C6, amended: the written file has a 3-line header, a blank line, and three
\* sections each opened by a comment banner and separated by blank lines; RPC_URL
\* precedes CHAIN_ID, the address section is PAYMENT_ESCROW_ADDRESS,
\* RIDE_ORDER_ADDRESS, USER_REGISTRY_ADDRESS, RATING_SYSTEM_ADDRESS,
\* DISPUTE_RESOLUTION_ADDRESS in that order, and PLATFORM_WALLET precedes
\* PLATFORM_FEE_RATE.
C6_Layout ==
  Succeeded =>
    HasLayout(envFile.text, PAYMENT_ESCROW_ADDRESS, RIDE_ORDER_ADDRESS,
              USER_REGISTRY_ADDRESS, RATING_SYSTEM_ADDRESS,
              DISPUTE_RESOLUTION_ADDRESS)

C6_Witness ==
  /\ Succeeded
  /\ FieldOf("contracts", "rideOrder") # <<>>
  /\ FieldOf("contracts", "paymentEscrow") # <<>>
  /\ FieldOf("contracts", "rideOrder") # FieldOf("contracts", "paymentEscrow")

\* C7 as stated: RPC_URL, CHAIN_ID and PLATFORM_FEE_RATE are written with
\* their non-empty default whenever the prior .env gives the key no value (no
\* file, no such key, or nothing after the '='), and none of the three is ever
\* written empty.
C7_AsStated ==
  LET L == Written IN
  Succeeded =>
    \A k \in {RPC_URL, CHAIN_ID, PLATFORM_FEE_RATE} :
      /\ (~PriorHas(k) \/ LastValue(envBefore.text, k) = <<>>) =>
            WritesExactly(L, k, CASE k = RPC_URL -> DefaultRpcUrl
                                  [] k = CHAIN_ID -> DefaultChainId
                                  [] k = PLATFORM_FEE_RATE -> DefaultFeeRate)
      /\ ~WritesExactly(L, k, <<>>)

\* C7, amended: RPC_URL, CHAIN_ID and PLATFORM_FEE_RATE are written non-empty
\* whenever the prior .env does not contain the key (no file, or no line for
\* the key); a key is written empty exactly when the prior .env contains it
\* with nothing after the '='.
C7_EmptyOnlyFromPrior ==
  LET L == Written IN
  Succeeded =>
    \A k \in {RPC_URL, CHAIN_ID, PLATFORM_FEE_RATE} :
      WritesExactly(L, k, <<>>)
        <=> (PriorHas(k) /\ LastValue(envBefore.text, k) = <<>>)

C7_Witness ==
  LET L == Written IN
  /\ Succeeded
  /\ PriorHas(PLATFORM_FEE_RATE)
  /\ LastValue(envBefore.text, PLATFORM_FEE_RATE) = <<>>
  /\ ~PriorHas(RPC_URL)
  /\ WritesExactly(L, PLATFORM_FEE_RATE, <<>>)

\* C8: .env changes only in the step that opens it for writing or in a write
\* that follows, when the deployment has been parsed, contracts extracted, the
\* existing .env read to its end and both files closed; a run that ends in a
\* fault with .env different from its prior state faulted in the write step.
C8_WriteAfterReads ==
  [][ /\ (envFile' # envFile =>
            /\ pc \in {"open_write", "write"}
            /\ handles \subseteq {"env_w"}
            /\ deployment = deployFile.json
            /\ contracts = deployFile.json["contracts"]
            /\ lineBuf = <<>>)
      /\ ((pc' = "crashed" /\ envFile' # envBefore') => fault' = "write") ]_vars

\* a fault in the middle of the writes left a partial file in place of a
\* prior one
C8_Witness ==
  /\ pc = "crashed"
  /\ fault = "write"
  /\ wi > 1
  /\ envBefore.exists
  /\ envFile # envBefore
  /\ ~Complete(envFile.text)

C9_ParsedLastWins ==
  (pc = "merge" /\ envFile.exists) =>
    /\ DOMAIN env_vars = KeysOf(envFile.text)
    /\ \A k \in DOMAIN env_vars : env_vars[k] = LastValue(envFile.text, k)

\* a key given twice with different values, the later one containing '='
C9_Witness ==
  /\ pc = "merge"
  /\ envFile.exists
  /\ \E k \in DOMAIN env_vars :
       /\ Cardinality(KeyLinesFor(envFile.text, k)) >= 2
       /\ "=" \in {env_vars[k][i] : i \in 1..Len(env_vars[k])}
       /\ ValueOfLine(FileLines(envFile.text)[SetMin(KeyLinesFor(envFile.text, k))])
            # env_vars[k]

====
